---- MODULE Spec2Model ----
(***************************************************************************)
(* Omaha equity calculator (omahaequity.py): the hand-strength ladder of   *)
(* a board (all_levels), its resolution into the concrete couplets of the  *)
(* remaining deck (specify) and the pot fraction of a holding (utility).   *)
(*                                                                         *)
(* A card is a record [rank, suit], a couplet a record [card_1, card_2],   *)
(* a level a sequence of couplets and a ladder a sequence of levels, as    *)
(* the Python lists are.  Python's 0-based list positions are 1-based      *)
(* sequence positions here.                                                *)
(***************************************************************************)
EXTENDS Integers, Sequences, FiniteSets, TLC

VARIABLES
    holding_size,       \* adjustable parameter (module global)
    num_players,        \* adjustable parameter (module global)
    pc,                 \* position of the running call
    holding,            \* utility's argument
    board,              \* the board under evaluation
    generic_levels,     \* all_levels(board)
    levels,             \* specify(all_levels(board), board)
    best_level_index,   \* utility's local, 0-based as in the source
    num_better_couplets,
    num_equipotent_couplets,
    num_worse_couplets,
    prob_best_hand,
    result,             \* what the call returned or raised
    couplet_self,       \* Couplet.fulfills: the couplet it is called on
    couplet_target      \* Couplet.fulfills: its argument

vars == <<holding_size, num_players, pc, holding, board, generic_levels, levels,
          best_level_index, num_better_couplets, num_equipotent_couplets,
          num_worse_couplets, prob_best_hand, result, couplet_self,
          couplet_target>>

(***************************************************************************)
(* Parameters and constants                                                *)
(***************************************************************************)
num_ranks == 13
num_suits == 4
board_size == 5

num_couplets_per_holding == (holding_size * (holding_size - 1)) \div 2
num_opponents == num_players - 1
num_opponents_couplets == num_opponents * num_couplets_per_holding

ace == 12
king == 11
queen == 10
jack == 9
ten == 8
nine == 7
eight == 6
seven == 5
six == 4
five == 3
four == 2
three == 1
deuce == 0
deprecated_ace == -1
hearts == 3
spades == 2
diamonds == 1
clubs == 0
anything == 999

(***************************************************************************)
(* List helpers                                                            *)
(***************************************************************************)
\* A Python list or dict is built once: list(s) and dict(f) are s and f evaluated
\* in full, so that reading an element does not evaluate the comprehension again
list(s) == s \o <<>>

dict(f) == f @@ <<>>

RECURSIVE flatten_from(_, _)
flatten_from(lizt, i) ==
    IF i > Len(lizt) THEN <<>> ELSE lizt[i] \o flatten_from(lizt, i + 1)

flatten(lizt) == flatten_from(lizt, 1)

\* The members of a sequence
Members(s) == {s[i] : i \in 1..Len(s)}

\* reversed(range(lo, hi)): hi-1, hi-2, ..., lo
reversed_range(lo, hi) ==
    IF hi <= lo THEN <<>> ELSE list([i \in 1..(hi - lo) |-> hi - i])

rank_range == reversed_range(0, num_ranks)

suit_range == reversed_range(0, num_suits)

\* itertools.combinations(zet, n), in its lexicographic order of positions
RECURSIVE combinations_from(_, _, _)
combinations_from(zet, n, start) ==
    IF n = 0 THEN << <<>> >>
    ELSE IF start > Len(zet) THEN <<>>
    ELSE LET rest == combinations_from(zet, n - 1, start + 1)
         IN  list([k \in 1..Len(rest) |-> <<zet[start]>> \o rest[k]])
             \o combinations_from(zet, n, start + 1)

subsets_of_size(n, zet) == combinations_from(zet, n, 1)

\* sorted(ranks, reverse=True) of a list of distinct integers
RECURSIVE sorted_reverse_set(_)
sorted_reverse_set(S) ==
    IF S = {} THEN <<>>
    ELSE LET m == CHOOSE x \in S : \A y \in S : y <= x
         IN  <<m>> \o sorted_reverse_set(S \ {m})

(***************************************************************************)
(* Card and Couplet                                                        *)
(***************************************************************************)
Card(rank, suit) == [rank |-> rank, suit |-> suit]

Couplet(card_1, card_2) == [card_1 |-> card_1, card_2 |-> card_2]

is_copy(self, target_card) ==
    self.rank = target_card.rank /\ self.suit = target_card.suit

card_fulfills(self, target_card) ==
    LET rank_fulfills == target_card.rank = anything \/ self.rank = target_card.rank
        suit_fulfills == target_card.suit = anything \/ self.suit = target_card.suit
    IN  rank_fulfills /\ suit_fulfills

card_is_compatible(self, cards) ==
    \A i \in 1..Len(cards) : ~is_copy(self, cards[i])

\* Couplet.fulfills without the out-of-order pairing
fulfills_in_order_only(self, target_couplet) ==
    /\ card_fulfills(self.card_1, target_couplet.card_1)
    /\ card_fulfills(self.card_2, target_couplet.card_2)

fulfills(self, target_couplet) ==
    LET fulfills_in_order ==
            /\ card_fulfills(self.card_1, target_couplet.card_1)
            /\ card_fulfills(self.card_2, target_couplet.card_2)
        fulfills_out_of_order ==
            /\ card_fulfills(self.card_1, target_couplet.card_2)
            /\ card_fulfills(self.card_2, target_couplet.card_1)
    IN  fulfills_in_order \/ fulfills_out_of_order

is_compatible(self, cards) ==
    card_is_compatible(self.card_1, cards) /\ card_is_compatible(self.card_2, cards)

assemble_deck ==
    list([i \in 1..(num_ranks * num_suits) |->
        Card(rank_range[((i - 1) \div num_suits) + 1],
             suit_range[((i - 1) % num_suits) + 1])])

(***************************************************************************)
(* Board analysis                                                          *)
(***************************************************************************)
partition_by_suit(cards) ==
    list([k \in 1..num_suits |->
        SelectSeq(cards, LAMBDA card : card.suit = suit_range[k])])

extract_ranks(cards, include_deprecation) ==
    LET board_ranks == list([i \in 1..Len(cards) |-> cards[i].rank])
    IN  IF include_deprecation
        THEN board_ranks \o
             list([i \in 1..Len(SelectSeq(board_ranks, LAMBDA rank : rank = ace)) |->
                 deprecated_ace])
        ELSE board_ranks

tally_ranks(cards) ==
    dict([rank \in 0..(num_ranks - 1) |->
        Cardinality({i \in 1..Len(cards) : cards[i].rank = rank})])

max_tally(rank_tallies) ==
    CHOOSE t \in {rank_tallies[rank] : rank \in DOMAIN rank_tallies} \union {0} :
        \A rank \in DOMAIN rank_tallies : rank_tallies[rank] <= t

\* The first rank, scanning downwards, whose tally exceeds 1; None (-1 here) when
\* the board is unpaired
highest_repeated_rank(rank_tallies) ==
    IF \E rank \in DOMAIN rank_tallies : rank_tallies[rank] > 1
    THEN CHOOSE rank \in DOMAIN rank_tallies :
            /\ rank_tallies[rank] > 1
            /\ \A other \in DOMAIN rank_tallies :
                   rank_tallies[other] > 1 => other <= rank
    ELSE -1

pair_couplet(rank) == Couplet(Card(rank, anything), Card(rank, anything))

couplify(cards) == Couplet(cards[1], cards[2])

\* couplify_ranks without the reduction of the deprecated ace to the ace
couplify_ranks_unreduced(ranks, suit) ==
    Couplet(Card(ranks[1], suit), Card(ranks[2], suit))

couplify_ranks(ranks, suit) ==
    Couplet(Card(ranks[1] % num_ranks, suit), Card(ranks[2] % num_ranks, suit))

remove_incompatible_couplets(level, forbidden_cards) ==
    SelectSeq(level, LAMBDA couplet : is_compatible(couplet, forbidden_cards))

remove_empty_levels(lvls) == SelectSeq(lvls, LAMBDA level : Len(level) > 0)

\* One single-pattern level per member of a list of ranks, pairing it with `rank`
levels_pairing(rank, inner_ranks) ==
    list([k \in 1..Len(inner_ranks) |->
        <<Couplet(Card(rank, anything), Card(inner_ranks[k], anything))>>])

\* One single-pattern level per pair (higher, lower) of a descending list of ranks
kicker_levels(kicker_rank_range) ==
    flatten([h \in 1..Len(kicker_rank_range) |->
        levels_pairing(kicker_rank_range[h],
            SelectSeq(kicker_rank_range,
                      LAMBDA rank : rank < kicker_rank_range[h]))])

\* The levels a loop over rank_range() appends, F(rank) being one iteration's
per_rank(F(_)) == flatten([i \in 1..Len(rank_range) |-> F(rank_range[i])])

ranks_where(P(_)) == SelectSeq(rank_range, P)

(***************************************************************************)
(* Level builders                                                          *)
(***************************************************************************)
\* [unique_board_ranks.append(rank) for rank in ... if rank not in unique_board_ranks]:
\* every rank at the place of its first occurrence
unique_board_ranks(cards) ==
    LET ranks == extract_ranks(cards, TRUE)
        firsts == SelectSeq(list([i \in 1..Len(ranks) |-> i]),
                      LAMBDA i : \A j \in 1..(i - 1) : ranks[j] # ranks[i])
    IN  list([k \in 1..Len(firsts) |-> ranks[firsts[k]]])

straight_level_with_suit(high_rank, board_ranks, suit_to_record) ==
    LET straight_ranks == reversed_range(high_rank - 4, high_rank + 1)
        windows == Members(subsets_of_size(3, straight_ranks))
        candidates ==
            SelectSeq(subsets_of_size(3, sorted_reverse_set(Members(board_ranks))),
                      LAMBDA subset : subset \in windows)
    IN  list([k \in 1..Len(candidates) |->
            couplify_ranks(
                SelectSeq(straight_ranks,
                          LAMBDA rank : rank \notin Members(candidates[k])),
                suit_to_record)])

straight_levels_with_suit(cards, suit_to_record) ==
    LET highs == reversed_range(five, num_ranks)
        board_ranks == unique_board_ranks(cards)
    IN  remove_empty_levels(
            list([k \in 1..Len(highs) |->
                straight_level_with_suit(highs[k], board_ranks, suit_to_record)]))

straight_levels(cards) == straight_levels_with_suit(cards, anything)

straight_flush_levels(cards) ==
    LET subboards == partition_by_suit(cards)
        found ==
            flatten([k \in 1..Len(subboards) |->
                IF Len(subboards[k]) >= 3
                THEN straight_levels_with_suit(subboards[k], subboards[k][1].suit)
                ELSE <<>>])
    IN  remove_empty_levels(
            list([k \in 1..Len(found) |->
                remove_incompatible_couplets(found[k], cards)]))

four_of_a_kind_levels(cards) ==
    LET rank_tallies == tally_ranks(cards)
    IN  per_rank(LAMBDA rank :
            IF rank_tallies[rank] = 2 THEN << <<pair_couplet(rank)>> >>
            ELSE IF rank_tallies[rank] >= 3
            THEN << <<Couplet(Card(rank, anything), Card(anything, anything))>> >>
            ELSE <<>>)

\* The scan of full_house_levels on a board holding three or more of one rank
RECURSIVE full_house_scan(_, _, _)
full_house_scan(rank_tallies, i, continue_scan) ==
    IF i > Len(rank_range) \/ ~continue_scan THEN <<>>
    ELSE LET rank == rank_range[i]
         IN  IF rank_tallies[rank] = 1
             THEN << <<pair_couplet(rank)>> >> \o
                  full_house_scan(rank_tallies, i + 1, TRUE)
             ELSE IF rank_tallies[rank] >= 3
             THEN LET inner_ranks ==
                          ranks_where(LAMBDA inner_rank :
                              \/ rank_tallies[inner_rank] = 0
                              \/ (rank_tallies[inner_rank] = 1 /\ inner_rank < rank))
                  IN  list([k \in 1..Len(inner_ranks) |->
                          <<pair_couplet(inner_ranks[k])>>])
                      \o full_house_scan(rank_tallies, i + 1, FALSE)
             ELSE full_house_scan(rank_tallies, i + 1, TRUE)

full_house_levels(cards) ==
    LET rank_tallies == tally_ranks(cards)
        most_of_one_rank == max_tally(rank_tallies)
    IN  IF most_of_one_rank = 2
        THEN per_rank(LAMBDA rank :
                IF rank_tallies[rank] = 1 THEN << <<pair_couplet(rank)>> >>
                ELSE IF rank_tallies[rank] = 2
                THEN levels_pairing(rank,
                        ranks_where(LAMBDA inner_rank :
                            \/ rank_tallies[inner_rank] = 1
                            \/ (rank_tallies[inner_rank] = 2 /\ inner_rank < rank)))
                ELSE <<>>)
        ELSE IF most_of_one_rank >= 3
        THEN full_house_scan(rank_tallies, 1, TRUE)
        ELSE <<>>

\* The version of flush_levels the source keeps in a string: every rank of
\* rank_range(), the ranks of the board included
flush_levels_allowing_duplicates(cards) ==
    LET subboards == partition_by_suit(cards)
    IN  flatten([k \in 1..Len(subboards) |->
            IF Len(subboards[k]) >= 3
            THEN list([n \in 1..Len(rank_range) |->
                     <<Couplet(Card(rank_range[n], subboards[k][1].suit),
                               Card(anything, subboards[k][1].suit))>>])
            ELSE <<>>])

flush_levels(cards) ==
    LET subboards == partition_by_suit(cards)
    IN  flatten([k \in 1..Len(subboards) |->
            IF Len(subboards[k]) >= 3
            THEN LET subboard_suit == subboards[k][1].suit
                     novel_ranks ==
                         SelectSeq(reversed_range(three, num_ranks),
                             LAMBDA rank :
                                 rank \notin Members(extract_ranks(subboards[k], FALSE)))
                 IN  list([n \in 1..Len(novel_ranks) |->
                         <<Couplet(Card(novel_ranks[n], subboard_suit),
                                   Card(anything, subboard_suit))>>])
            ELSE <<>>])

\* The scan of three_of_a_kind_levels on a board holding three or more of one rank
RECURSIVE three_of_a_kind_scan(_, _, _, _)
three_of_a_kind_scan(rank_tallies, i, continue_scan, tally_2_overranks) ==
    IF i > Len(rank_range) \/ ~continue_scan THEN <<>>
    ELSE LET rank == rank_range[i]
         IN  IF rank_tallies[rank] = 2
             THEN levels_pairing(rank,
                      ranks_where(LAMBDA inner_rank : rank_tallies[inner_rank] = 0))
                  \o three_of_a_kind_scan(rank_tallies, i + 1, TRUE,
                                          Append(tally_2_overranks, rank))
             ELSE IF rank_tallies[rank] = 3
             THEN kicker_levels(
                      ranks_where(LAMBDA inner_rank :
                          /\ inner_rank # rank
                          /\ inner_rank \notin Members(tally_2_overranks)))
                  \o three_of_a_kind_scan(rank_tallies, i + 1, FALSE,
                                          tally_2_overranks)
             ELSE three_of_a_kind_scan(rank_tallies, i + 1, TRUE, tally_2_overranks)

three_of_a_kind_levels(cards) ==
    LET rank_tallies == tally_ranks(cards)
        most_of_one_rank == max_tally(rank_tallies)
    IN  IF most_of_one_rank = 1
        THEN per_rank(LAMBDA rank :
                IF rank_tallies[rank] = 1 THEN << <<pair_couplet(rank)>> >> ELSE <<>>)
        ELSE IF most_of_one_rank = 2
        THEN per_rank(LAMBDA rank :
                IF rank_tallies[rank] = 2
                THEN levels_pairing(rank,
                        ranks_where(LAMBDA inner_rank : rank_tallies[inner_rank] = 0))
                ELSE <<>>)
        ELSE IF most_of_one_rank >= 3
        THEN three_of_a_kind_scan(rank_tallies, 1, TRUE, <<>>)
        ELSE <<>>

\* two_pair_levels pairing, on an unpaired board, the ranks the board lacks
two_pair_levels_of_absent_ranks(cards) ==
    LET rank_tallies == tally_ranks(cards)
    IN  IF max_tally(rank_tallies) = 1
        THEN kicker_levels(ranks_where(LAMBDA rank : rank_tallies[rank] = 0))
        ELSE <<>>

two_pair_levels(cards) ==
    LET rank_tallies == tally_ranks(cards)
        most_of_one_rank == max_tally(rank_tallies)
        board_pair_rank == highest_repeated_rank(rank_tallies)
    IN  IF most_of_one_rank = 1
        THEN kicker_levels(ranks_where(LAMBDA rank : rank_tallies[rank] = 1))
        ELSE IF most_of_one_rank = 2
        THEN per_rank(LAMBDA rank :
                (IF rank_tallies[rank] = 0 THEN << <<pair_couplet(rank)>> >> ELSE <<>>)
                \o
                (IF rank_tallies[rank] = 1
                 THEN levels_pairing(rank,
                          ranks_where(LAMBDA inner_rank :
                              /\ inner_rank > board_pair_rank
                              /\ rank_tallies[inner_rank] = 1
                              /\ inner_rank # rank))
                      \o
                      levels_pairing(rank,
                          ranks_where(LAMBDA inner_rank :
                              \/ inner_rank < board_pair_rank
                              \/ rank_tallies[inner_rank] = 0))
                 ELSE <<>>))
        ELSE <<>>

one_pair_levels(cards) ==
    LET rank_tallies == tally_ranks(cards)
        most_of_one_rank == max_tally(rank_tallies)
    IN  IF most_of_one_rank = 1
        THEN per_rank(LAMBDA rank :
                (IF rank_tallies[rank] = 0 THEN << <<pair_couplet(rank)>> >> ELSE <<>>)
                \o
                (IF rank_tallies[rank] = 1
                 THEN levels_pairing(rank,
                          ranks_where(LAMBDA inner_rank : rank_tallies[inner_rank] = 0))
                 ELSE <<>>))
        ELSE IF most_of_one_rank = 2
        THEN kicker_levels(ranks_where(LAMBDA rank : rank_tallies[rank] = 0))
        ELSE <<>>

high_card_levels(cards) ==
    LET rank_tallies == tally_ranks(cards)
        most_of_one_rank == max_tally(rank_tallies)
    IN  IF most_of_one_rank = 1
        THEN kicker_levels(ranks_where(LAMBDA rank : rank_tallies[rank] = 0))
        ELSE <<>>

catch_all_level == <<Couplet(Card(anything, anything), Card(anything, anything))>>

all_levels(cards) ==
    straight_flush_levels(cards) \o
    four_of_a_kind_levels(cards) \o
    full_house_levels(cards) \o
    flush_levels(cards) \o
    straight_levels(cards) \o
    three_of_a_kind_levels(cards) \o
    two_pair_levels(cards) \o
    one_pair_levels(cards) \o
    high_card_levels(cards) \o
    <<catch_all_level>>

(***************************************************************************)
(* Ladder resolver                                                         *)
(***************************************************************************)
remaining_deck(cards) ==
    SelectSeq(assemble_deck, LAMBDA card : card_is_compatible(card, cards))

specific_couplets(cards) ==
    LET deck == remaining_deck(cards)
    IN  flatten([i \in 1..Len(deck) |->
            list([j \in 1..(Len(deck) - i) |-> Couplet(deck[i], deck[i + j])])])

level_matches(specific_couplet, generic_level) ==
    \E k \in 1..Len(generic_level) : fulfills(specific_couplet, generic_level[k])

\* The 1-based positions of the generic levels that specify's scan appends the
\* couplet to: continue_scan lets only the first matching level take it
\* The scan keeping the last matching level instead of stopping at the first
last_match(specific_couplet, generic, level_index) ==
    LET hits == {g \in level_index..Len(generic) :
                    level_matches(specific_couplet, generic[g])}
    IN  IF hits = {} THEN 0 ELSE CHOOSE g \in hits : \A h \in hits : h <= g

RECURSIVE first_match(_, _, _)
first_match(specific_couplet, generic, level_index) ==
    IF level_index > Len(generic) THEN 0
    ELSE IF level_matches(specific_couplet, generic[level_index]) THEN level_index
    ELSE first_match(specific_couplet, generic, level_index + 1)

\* specify without continue_scan: every matching level takes the couplet
appended_to_every_match(specific_couplet, generic) ==
    {level_index \in 1..Len(generic) :
        level_matches(specific_couplet, generic[level_index])}

appended_to(specific_couplet, generic) ==
    LET found == first_match(specific_couplet, generic, 1)
    IN  IF found = 0 THEN {} ELSE {found}

specify(generic, cards) ==
    LET couplets == specific_couplets(cards)
        targets == list([k \in 1..Len(couplets) |->
                            appended_to(couplets[k], generic)])
        positions == list([k \in 1..Len(couplets) |-> k])
        specific_levels ==
            list([level_index \in 1..Len(generic) |->
                LET taken == SelectSeq(positions,
                                 LAMBDA k : level_index \in targets[k])
                IN  list([n \in 1..Len(taken) |-> couplets[taken[n]]])])
    IN  remove_empty_levels(specific_levels)

(***************************************************************************)
(* Numbers.  math.comb is exact; Python's float quotients are modelled by  *)
(* exact fractions in lowest terms, [num, den] with den > 0.               *)
(***************************************************************************)
RECURSIVE comb(_, _)
comb(n, k) ==
    IF k > n THEN 0
    ELSE IF k = 0 THEN 1
    ELSE (comb(n, k - 1) * (n - k + 1)) \div k

RECURSIVE gcd(_, _)
gcd(a, b) == IF b = 0 THEN a ELSE gcd(b, a % b)

\* n / d for d > 0
fraction(n, d) ==
    IF n = 0 THEN [num |-> 0, den |-> 1]
    ELSE [num |-> n \div gcd(n, d), den |-> d \div gcd(n, d)]

fraction_add(x, y) ==
    LET common == (x.den \div gcd(x.den, y.den)) * y.den
    IN  fraction(x.num * (common \div x.den) + y.num * (common \div y.den), common)

fraction_mul(x, y) ==
    LET a == fraction(x.num, y.den)
        b == fraction(y.num, x.den)
    IN  [num |-> a.num * b.num, den |-> a.den * b.den]

min(a, b) == IF a < b THEN a ELSE b

(***************************************************************************)
(* Equity engine                                                           *)
(***************************************************************************)
\* 0-based index of the first level holding a couplet the target fulfills; None
\* (-1 here) when no level does
RECURSIVE index_from(_, _, _)
index_from(target_couplet, lvls, level_index) ==
    IF level_index > Len(lvls) THEN -1
    ELSE IF \E k \in 1..Len(lvls[level_index]) :
                fulfills(target_couplet, lvls[level_index][k])
         THEN level_index - 1
         ELSE index_from(target_couplet, lvls, level_index + 1)

index_of_level_containing(target_couplet, lvls) ==
    index_from(target_couplet, lvls, 1)

holding_couplets(cards) ==
    LET subsets == subsets_of_size(2, cards)
    IN  list([k \in 1..Len(subsets) |-> couplify(subsets[k])])

\* The loop of utility over the holding's couplets: the index it ends with, or
\* TypeError (-1 here) when a couplet is in no level and None < int is evaluated
TypeError == -1

RECURSIVE best_level_loop(_, _, _, _)
best_level_loop(couplets, lvls, k, best) ==
    IF k > Len(couplets) THEN best
    ELSE LET level_index == index_of_level_containing(couplets[k], lvls)
         IN  IF level_index = -1 THEN TypeError
             ELSE best_level_loop(couplets, lvls, k + 1, min(level_index, best))

\* The count without remove_incompatible_couplets
unfiltered_count(couplets, cards) == Len(couplets)

compatible_count(couplets, cards) ==
    Len(remove_incompatible_couplets(couplets, cards))

\* The try block of utility: the sum it has accumulated when the loop ends or
\* when the ZeroDivisionError is caught
RECURSIVE expected_pot_fraction_loop(_, _, _, _, _)
expected_pot_fraction_loop(num_equipotent, num_worse, num_couplets, k, so_far) ==
    IF k >= min(num_equipotent + 1, num_couplets + 1) THEN so_far
    ELSE IF comb(num_equipotent + num_worse, num_couplets) = 0 THEN so_far
    ELSE expected_pot_fraction_loop(num_equipotent, num_worse, num_couplets, k + 1,
             fraction_add(so_far,
                 fraction(comb(num_equipotent, k) * comb(num_worse, num_couplets - k),
                          comb(num_equipotent + num_worse, num_couplets) * (k + 1))))

expected_pot_fraction_given_best_hand(num_equipotent, num_worse, num_couplets) ==
    expected_pot_fraction_loop(num_equipotent, num_worse, num_couplets, 0,
                               fraction(0, 1))

(***************************************************************************)
(* The calls.  A call runs alone from "idle" to its return or its raise;   *)
(* the trial driver then makes the next call.                              *)
(***************************************************************************)
NoResult == [outcome |-> "none"]
Returned(value) == [outcome |-> "returned", value |-> value]
Raised(error) == [outcome |-> "raised", error |-> error]

Idle ==
    /\ pc = "idle"
    /\ holding = <<>>
    /\ board = <<>>
    /\ generic_levels = <<>>
    /\ levels = <<>>
    /\ best_level_index = 0
    /\ num_better_couplets = 0
    /\ num_equipotent_couplets = 0
    /\ num_worse_couplets = 0
    /\ prob_best_hand = fraction(0, 1)
    /\ result = NoResult
    /\ couplet_self = <<>>
    /\ couplet_target = <<>>

\* specify(all_levels(board), board) asked for a board alone
RankLadder(cards) ==
    /\ pc = "idle"
    /\ pc' = "all_levels"
    /\ board' = cards
    /\ UNCHANGED <<holding_size, num_players, holding, generic_levels, levels,
                   best_level_index, num_better_couplets, num_equipotent_couplets,
                   num_worse_couplets, prob_best_hand, result>>
    /\ UNCHANGED <<couplet_self, couplet_target>>

\* utility(holding, board) is entered: nothing is checked on entry
Utility(cards, board_cards) ==
    /\ pc = "idle"
    /\ pc' = "all_levels"
    /\ holding' = cards
    /\ board' = board_cards
    /\ UNCHANGED <<holding_size, num_players, generic_levels, levels,
                   best_level_index, num_better_couplets, num_equipotent_couplets,
                   num_worse_couplets, prob_best_hand, result>>
    /\ UNCHANGED <<couplet_self, couplet_target>>

AllLevels ==
    /\ pc = "all_levels"
    /\ pc' = "specify"
    /\ generic_levels' = all_levels(board)
    /\ UNCHANGED <<holding_size, num_players, holding, board, levels,
                   best_level_index, num_better_couplets, num_equipotent_couplets,
                   num_worse_couplets, prob_best_hand, result>>
    /\ UNCHANGED <<couplet_self, couplet_target>>

Specify ==
    /\ pc = "specify"
    /\ pc' = "specified"
    /\ levels' = specify(generic_levels, board)
    /\ UNCHANGED <<holding_size, num_players, holding, board, generic_levels,
                   best_level_index, num_better_couplets, num_equipotent_couplets,
                   num_worse_couplets, prob_best_hand, result>>
    /\ UNCHANGED <<couplet_self, couplet_target>>

BestLevel ==
    /\ pc = "specified"
    /\ holding # <<>>
    /\ LET best == best_level_loop(holding_couplets(holding), levels, 1, Len(levels))
       IN  IF best = TypeError
           THEN /\ pc' = "raised"
                /\ result' = Raised("TypeError")
                /\ UNCHANGED best_level_index
           ELSE /\ pc' = "count"
                /\ best_level_index' = best
                /\ UNCHANGED result
    /\ UNCHANGED <<holding_size, num_players, holding, board, generic_levels, levels,
                   num_better_couplets, num_equipotent_couplets,
                   num_worse_couplets, prob_best_hand>>
    /\ UNCHANGED <<couplet_self, couplet_target>>

CountCouplets ==
    /\ pc = "count"
    /\ pc' = "prob_best_hand"
    /\ num_better_couplets' =
           compatible_count(flatten(SubSeq(levels, 1, best_level_index)), holding)
    /\ num_equipotent_couplets' =
           compatible_count(levels[best_level_index + 1], holding)
    /\ num_worse_couplets' =
           compatible_count(
               flatten(SubSeq(levels, best_level_index + 2, Len(levels))), holding)
    /\ UNCHANGED <<holding_size, num_players, holding, board, generic_levels, levels,
                   best_level_index, prob_best_hand, result>>
    /\ UNCHANGED <<couplet_self, couplet_target>>

ProbBestHand ==
    /\ pc = "prob_best_hand"
    /\ LET possible == comb(num_better_couplets + num_equipotent_couplets
                                + num_worse_couplets, num_opponents_couplets)
       IN  IF possible = 0
           THEN /\ pc' = "raised"
                /\ result' = Raised("ZeroDivisionError")
                /\ UNCHANGED prob_best_hand
           ELSE /\ pc' = "expected_pot_fraction"
                /\ prob_best_hand' =
                       fraction(comb(num_equipotent_couplets + num_worse_couplets,
                                     num_opponents_couplets), possible)
                /\ UNCHANGED result
    /\ UNCHANGED <<holding_size, num_players, holding, board, generic_levels, levels,
                   best_level_index, num_better_couplets, num_equipotent_couplets,
                   num_worse_couplets>>
    /\ UNCHANGED <<couplet_self, couplet_target>>

ExpectedPotFraction ==
    /\ pc = "expected_pot_fraction"
    /\ pc' = "returned"
    /\ result' = Returned(fraction_mul(prob_best_hand,
                     expected_pot_fraction_given_best_hand(num_equipotent_couplets,
                         num_worse_couplets, num_opponents_couplets)))
    /\ UNCHANGED <<holding_size, num_players, holding, board, generic_levels, levels,
                   best_level_index, num_better_couplets, num_equipotent_couplets,
                   num_worse_couplets, prob_best_hand>>
    /\ UNCHANGED <<couplet_self, couplet_target>>

\* couplet.fulfills(target) asked for on its own
Fulfills(couplet, target) ==
    /\ pc = "idle"
    /\ pc' = "fulfills"
    /\ couplet_self' = couplet
    /\ couplet_target' = target
    /\ result' = Returned(fulfills(couplet, target))
    /\ UNCHANGED <<holding_size, num_players, holding, board, generic_levels, levels,
                   best_level_index, num_better_couplets, num_equipotent_couplets,
                   num_worse_couplets, prob_best_hand>>

\* flush_levels(board) asked for on its own
FlushLevels(cards) ==
    /\ pc = "idle"
    /\ pc' = "flush_levels"
    /\ board' = cards
    /\ generic_levels' = flush_levels(cards)
    /\ UNCHANGED <<holding_size, num_players, holding, levels,
                   best_level_index, num_better_couplets, num_equipotent_couplets,
                   num_worse_couplets, prob_best_hand, result, couplet_self,
                   couplet_target>>

\* straight_levels(board) asked for on its own
StraightLevels(cards) ==
    /\ pc = "idle"
    /\ pc' = "straight_levels"
    /\ board' = cards
    /\ generic_levels' = straight_levels(cards)
    /\ UNCHANGED <<holding_size, num_players, holding, levels,
                   best_level_index, num_better_couplets, num_equipotent_couplets,
                   num_worse_couplets, prob_best_hand, result, couplet_self,
                   couplet_target>>

\* two_pair_levels(board) asked for on its own
TwoPairLevels(cards) ==
    /\ pc = "idle"
    /\ pc' = "two_pair_levels"
    /\ board' = cards
    /\ generic_levels' = two_pair_levels(cards)
    /\ UNCHANGED <<holding_size, num_players, holding, levels,
                   best_level_index, num_better_couplets, num_equipotent_couplets,
                   num_worse_couplets, prob_best_hand, result, couplet_self,
                   couplet_target>>

\* The call is over; the driver goes on to its next trial
Return ==
    /\ pc \in {"returned", "raised", "fulfills", "flush_levels", "two_pair_levels",
               "straight_levels"}
               \union (IF holding = <<>> THEN {"specified"} ELSE {})
    /\ pc' = "idle"
    /\ holding' = <<>>
    /\ board' = <<>>
    /\ generic_levels' = <<>>
    /\ levels' = <<>>
    /\ best_level_index' = 0
    /\ num_better_couplets' = 0
    /\ num_equipotent_couplets' = 0
    /\ num_worse_couplets' = 0
    /\ prob_best_hand' = fraction(0, 1)
    /\ result' = NoResult
    /\ couplet_self' = <<>>
    /\ couplet_target' = <<>>
    /\ UNCHANGED <<holding_size, num_players>>

(***************************************************************************)
(* Reference hand evaluator: the standard value of five cards, and the     *)
(* best hand a couplet makes with exactly three cards of the board.  It    *)
(* shares nothing with the level builders.                                 *)
(***************************************************************************)
HandBase == num_ranks ^ 5

hand_value(hand) ==
    LET count == list([i \in 1..5 |->
                     Cardinality({j \in 1..5 : hand[j].rank = hand[i].rank})])
        \* position of card i when the hand is ordered by (count, rank), highest first
        place == list([i \in 1..5 |->
                     Cardinality({j \in 1..5 :
                         \/ count[j] > count[i]
                         \/ count[j] = count[i] /\ hand[j].rank > hand[i].rank
                         \/ count[j] = count[i] /\ hand[j].rank = hand[i].rank /\ j < i})])
        kickers == hand[1].rank * num_ranks ^ (4 - place[1])
                 + hand[2].rank * num_ranks ^ (4 - place[2])
                 + hand[3].rank * num_ranks ^ (4 - place[3])
                 + hand[4].rank * num_ranks ^ (4 - place[4])
                 + hand[5].rank * num_ranks ^ (4 - place[5])
        ranks == {hand[i].rank : i \in 1..5}
        highest == CHOOSE r \in ranks : \A q \in ranks : q <= r
        lowest == CHOOSE r \in ranks : \A q \in ranks : q >= r
        most == CHOOSE c \in Members(count) : \A d \in Members(count) : d <= c
        straight_high ==
            IF Cardinality(ranks) = 5 /\ highest - lowest = 4 THEN highest
            ELSE IF ranks = {ace, five, four, three, deuce} THEN five
            ELSE -1
        flush == \A i \in 2..5 : hand[i].suit = hand[1].suit
    IN  IF straight_high >= 0 /\ flush THEN 8 * HandBase + straight_high
        ELSE IF most = 4 THEN 7 * HandBase + kickers
        ELSE IF most = 3 /\ Cardinality(ranks) = 2 THEN 6 * HandBase + kickers
        ELSE IF flush THEN 5 * HandBase + kickers
        ELSE IF straight_high >= 0 THEN 4 * HandBase + straight_high
        ELSE IF most = 3 THEN 3 * HandBase + kickers
        ELSE IF most = 2 /\ Cardinality(ranks) = 3 THEN 2 * HandBase + kickers
        ELSE IF most = 2 THEN HandBase + kickers
        ELSE kickers

board_triples(cards) ==
    {t \in (1..Len(cards)) \X (1..Len(cards)) \X (1..Len(cards)) :
        t[1] < t[2] /\ t[2] < t[3]}

best_hand(couplet, cards) ==
    LET values == {hand_value(<<couplet.card_1, couplet.card_2,
                                cards[t[1]], cards[t[2]], cards[t[3]]>>) :
                       t \in board_triples(cards)}
    IN  CHOOSE v \in values : \A u \in values : u <= v

(***************************************************************************)
(* The runs.  The driver deals boards at random; the runs here deal the    *)
(* first NumBoards boards of SampleBoards, which cover boards of three,    *)
(* four and six cards and, at board_size, unpaired, paired, double-paired, *)
(* tripled and quadrupled boards, three to five cards of a suit, connected *)
(* ranks and the wheel.                                                    *)
(***************************************************************************)
SampleBoards ==
    << <<Card(nine, hearts), Card(eight, hearts), Card(three, hearts),
         Card(queen, diamonds), Card(seven, diamonds), Card(four, diamonds)>>,
       <<Card(ace, hearts), Card(king, diamonds), Card(queen, spades),
         Card(six, clubs), Card(four, diamonds), Card(deuce, hearts)>>,
       <<Card(king, hearts), Card(nine, hearts), Card(five, hearts)>>,
       <<Card(jack, spades), Card(jack, diamonds), Card(eight, clubs),
         Card(three, hearts)>>,
       <<Card(ace, hearts), Card(ace, spades), Card(king, diamonds),
         Card(seven, clubs), Card(deuce, hearts)>>,
       <<Card(king, spades), Card(nine, diamonds), Card(seven, hearts),
         Card(four, clubs), Card(deuce, spades)>>,
       <<Card(queen, hearts), Card(jack, hearts), Card(nine, hearts),
         Card(four, spades), Card(deuce, diamonds)>>,
       <<Card(ace, hearts), Card(deuce, hearts), Card(three, hearts),
         Card(nine, spades), Card(king, diamonds)>>,
       <<Card(nine, clubs), Card(nine, diamonds), Card(nine, hearts),
         Card(nine, spades), Card(ten, diamonds)>>,
       <<Card(jack, hearts), Card(jack, spades), Card(jack, diamonds),
         Card(five, clubs), Card(five, diamonds)>>,
       <<Card(five, hearts), Card(five, spades), Card(five, diamonds),
         Card(jack, clubs), Card(jack, diamonds)>>,
       <<Card(eight, hearts), Card(eight, spades), Card(four, hearts),
         Card(four, clubs), Card(queen, diamonds)>>,
       <<Card(seven, hearts), Card(seven, spades), Card(seven, clubs),
         Card(four, clubs), Card(queen, diamonds)>>,
       <<Card(ace, diamonds), Card(king, diamonds), Card(queen, diamonds),
         Card(jack, diamonds), Card(ten, diamonds)>>,
       <<Card(six, spades), Card(five, spades), Card(four, spades),
         Card(three, spades), Card(king, hearts)>>,
       <<Card(ace, hearts), Card(king, hearts), Card(eight, hearts),
         Card(five, hearts), Card(deuce, hearts)>>,
       <<Card(ace, clubs), Card(five, diamonds), Card(four, hearts),
         Card(three, spades), Card(deuce, clubs)>>,
       <<Card(ten, spades), Card(nine, spades), Card(eight, diamonds),
         Card(three, clubs), Card(three, hearts)>>,
       <<Card(king, hearts), Card(king, spades), Card(nine, hearts),
         Card(five, hearts), Card(deuce, clubs)>>,
       <<Card(queen, spades), Card(queen, diamonds), Card(queen, clubs),
         Card(eight, spades), Card(three, spades)>>,
       <<Card(seven, diamonds), Card(six, diamonds), Card(five, diamonds),
         Card(seven, clubs), Card(deuce, spades)>>,
       <<Card(ace, hearts), Card(king, diamonds), Card(queen, spades),
         Card(six, clubs), Card(four, diamonds)>>,
       <<Card(ten, diamonds), Card(eight, clubs), Card(six, hearts),
         Card(four, spades), Card(deuce, diamonds)>>,
       <<Card(jack, clubs), Card(ten, clubs), Card(nine, clubs),
         Card(eight, clubs), Card(deuce, hearts)>>,
       <<Card(three, hearts), Card(three, spades), Card(three, diamonds),
         Card(deuce, clubs), Card(deuce, diamonds)>>,
       <<Card(deuce, hearts), Card(deuce, spades), Card(deuce, diamonds),
         Card(three, clubs), Card(three, diamonds)>>,
       <<Card(ace, hearts), Card(ace, diamonds), Card(ace, spades),
         Card(ace, clubs), Card(king, hearts)>>,
       <<Card(king, spades), Card(king, diamonds), Card(eight, clubs),
         Card(eight, diamonds), Card(seven, hearts)>>,
       <<Card(ace, clubs), Card(queen, clubs), Card(nine, diamonds),
         Card(nine, spades), Card(four, clubs)>>,
       <<Card(six, hearts), Card(six, diamonds), Card(six, spades),
         Card(ace, clubs), Card(king, clubs)>>,
       <<Card(king, clubs), Card(queen, clubs), Card(jack, clubs),
         Card(ten, clubs), Card(nine, clubs)>>,
       <<Card(four, diamonds), Card(three, diamonds), Card(deuce, diamonds),
         Card(ace, diamonds), Card(jack, hearts)>>,
       <<Card(five, clubs), Card(five, hearts), Card(eight, clubs),
         Card(eight, hearts), Card(ten, clubs)>>,
       <<Card(nine, hearts), Card(eight, hearts), Card(seven, spades),
         Card(six, spades), Card(five, diamonds)>>,
       <<Card(ace, hearts), Card(king, clubs), Card(queen, clubs),
         Card(ten, hearts), Card(three, diamonds)>>,
       <<Card(queen, diamonds), Card(jack, spades), Card(eight, clubs),
         Card(seven, clubs), Card(deuce, clubs)>>,
       <<Card(ace, spades), Card(king, spades), Card(king, hearts),
         Card(queen, hearts), Card(queen, spades)>>,
       <<Card(deuce, clubs), Card(deuce, hearts), Card(seven, diamonds),
         Card(nine, spades), Card(jack, hearts)>>,
       <<Card(ten, hearts), Card(seven, hearts), Card(four, hearts),
         Card(ten, spades), Card(four, spades)>>,
       <<Card(king, diamonds), Card(jack, diamonds), Card(nine, diamonds),
         Card(seven, diamonds), Card(five, diamonds)>>,
       <<Card(six, clubs), Card(six, hearts), Card(six, diamonds),
         Card(six, spades), Card(deuce, hearts)>>,
       <<Card(eight, spades), Card(seven, spades), Card(five, spades),
         Card(four, spades), Card(ace, diamonds)>> >>

NumBoards == 36

DealtBoards == {SampleBoards[i] : i \in 1..min(NumBoards, Len(SampleBoards))}

\* The parameters as the source sets them
ShippedTable == [holding_size |-> 4, num_players |-> 6]

Init ==
    /\ holding_size = ShippedTable.holding_size
    /\ num_players = ShippedTable.num_players
    /\ Idle

Next ==
    \/ \E cards \in DealtBoards : RankLadder(cards)
    \/ AllLevels
    \/ Specify
    \/ Return

Spec == Init /\ [][Next]_vars

(***************************************************************************)
(* The runs of utility.  The table (holding_size, num_players) is set      *)
(* before the run; the runs here take the tables of SmallTables, whose     *)
(* num_opponents_couplets is 1, 2, 3 and 3, and deal the first NumDeals    *)
(* deals of SampleDeals that have holding_size cards in the holding.  The  *)
(* deals cover proper deals, a board with a card twice, a holding with a   *)
(* card twice, a holding sharing a card with the board, and boards that    *)
(* leave only a few cards in the deck.                                     *)
(***************************************************************************)
SampleDeals ==
    << [holding |-> <<Card(king, hearts), Card(ten, hearts)>>,
        board |-> <<Card(ace, hearts), Card(queen, hearts),
            Card(jack, hearts), Card(four, spades), Card(deuce, diamonds)>>],
       [holding |-> <<Card(ace, spades), Card(ace, diamonds),
           Card(king, clubs)>>,
        board |-> <<Card(ace, hearts), Card(nine, spades),
            Card(king, diamonds), Card(seven, clubs), Card(deuce, hearts)>>],
       [holding |-> <<Card(three, clubs), Card(deuce, diamonds)>>,
        board |-> <<Card(ace, hearts), Card(king, spades),
            Card(nine, diamonds), Card(six, clubs), Card(five, hearts)>>],
       [holding |-> <<Card(three, clubs), Card(deuce, diamonds),
           Card(seven, spades)>>,
        board |-> <<Card(ace, hearts), Card(king, spades),
            Card(nine, diamonds), Card(six, clubs), Card(four, hearts)>>],
       [holding |-> <<Card(ace, diamonds), Card(king, hearts)>>,
        board |-> <<Card(ace, hearts), Card(ace, hearts),
            Card(king, diamonds), Card(five, clubs), Card(deuce, hearts)>>],
       [holding |-> <<Card(ace, diamonds), Card(king, hearts),
           Card(queen, clubs)>>,
        board |-> <<Card(ace, hearts), Card(ace, hearts),
            Card(king, diamonds), Card(five, clubs), Card(deuce, hearts)>>],
       [holding |-> <<Card(ace, hearts), Card(king, hearts)>>,
        board |-> <<Card(ace, hearts), Card(ace, spades),
            Card(king, diamonds), Card(five, clubs), Card(deuce, hearts)>>],
       [holding |-> <<Card(ace, hearts), Card(king, hearts),
           Card(queen, clubs)>>,
        board |-> <<Card(ace, hearts), Card(ace, spades),
            Card(king, diamonds), Card(five, clubs), Card(deuce, hearts)>>],
       [holding |-> <<Card(ten, clubs), Card(ten, clubs)>>,
        board |-> <<Card(ace, hearts), Card(ace, spades),
            Card(king, diamonds), Card(five, clubs), Card(deuce, hearts)>>],
       [holding |-> <<Card(ten, clubs), Card(ten, clubs),
           Card(jack, diamonds)>>,
        board |-> <<Card(ace, hearts), Card(ace, spades),
            Card(king, diamonds), Card(five, clubs), Card(deuce, hearts)>>],
       [holding |-> <<Card(ace, diamonds), Card(ten, clubs)>>,
        board |-> remaining_deck(<<Card(ace, diamonds), Card(ten, clubs),
            Card(deuce, spades), Card(ace, spades), Card(ten, spades),
                Card(seven, diamonds)>>)],
       [holding |-> <<Card(jack, hearts), Card(nine, spades),
           Card(eight, clubs)>>,
        board |-> remaining_deck(<<Card(jack, hearts), Card(nine, spades),
            Card(eight, clubs), Card(king, clubs), Card(queen, hearts),
                Card(six, clubs), Card(ace, hearts)>>)],
       [holding |-> <<Card(ace, diamonds), Card(ten, clubs)>>,
        board |-> remaining_deck(<<Card(ace, diamonds), Card(ten, clubs),
            Card(deuce, spades)>>)],
       [holding |-> <<Card(jack, hearts), Card(nine, spades),
           Card(eight, clubs)>>,
        board |-> remaining_deck(<<Card(jack, hearts), Card(nine, spades),
            Card(eight, clubs), Card(king, clubs)>>)],
       [holding |-> <<Card(queen, spades), Card(queen, diamonds)>>,
        board |-> <<Card(king, spades), Card(nine, diamonds),
            Card(seven, hearts), Card(four, clubs), Card(deuce, spades)>>],
       [holding |-> <<Card(jack, clubs), Card(five, hearts),
           Card(ace, diamonds)>>,
        board |-> <<Card(jack, hearts), Card(jack, spades),
            Card(jack, diamonds), Card(five, clubs), Card(five, diamonds)>>],
       [holding |-> <<Card(ace, hearts), Card(king, diamonds)>>,
        board |-> <<Card(nine, clubs), Card(nine, diamonds),
            Card(nine, hearts), Card(nine, spades), Card(ten, diamonds)>>],
       [holding |-> <<Card(eight, hearts), Card(seven, clubs),
           Card(deuce, diamonds)>>,
        board |-> <<Card(ten, spades), Card(nine, spades),
            Card(six, diamonds), Card(three, clubs), Card(three, hearts)>>],
       [holding |-> <<Card(ace, hearts), Card(three, hearts)>>,
        board |-> <<Card(king, hearts), Card(nine, hearts),
            Card(five, hearts)>>],
       [holding |-> <<Card(ace, diamonds), Card(king, diamonds),
           Card(deuce, clubs)>>,
        board |-> <<Card(nine, hearts), Card(eight, hearts),
            Card(three, hearts), Card(queen, diamonds),
                Card(seven, diamonds), Card(four, diamonds)>>],
       [holding |-> <<Card(five, hearts), Card(four, diamonds)>>,
        board |-> <<Card(ace, clubs), Card(three, diamonds),
            Card(deuce, hearts), Card(nine, spades), Card(king, spades)>>],
       [holding |-> <<Card(eight, diamonds), Card(four, spades),
           Card(king, clubs)>>,
        board |-> <<Card(eight, hearts), Card(eight, spades),
            Card(four, hearts), Card(four, clubs), Card(queen, diamonds)>>] >>

NumDeals == 20

DealtDeals ==
    {SampleDeals[i] : i \in 1..min(NumDeals, Len(SampleDeals))}

SmallTables ==
    { [holding_size |-> 2, num_players |-> 2],
      [holding_size |-> 2, num_players |-> 3],
      [holding_size |-> 2, num_players |-> 4],
      [holding_size |-> 3, num_players |-> 2] }

InitUtility ==
    /\ \E table \in SmallTables :
           /\ holding_size = table.holding_size
           /\ num_players = table.num_players
    /\ Idle

NextUtility ==
    \/ \E deal \in DealtDeals :
           /\ Len(deal.holding) = holding_size
           /\ Utility(deal.holding, deal.board)
    \/ AllLevels
    \/ Specify
    \/ BestLevel
    \/ CountCouplets
    \/ ProbBestHand
    \/ ExpectedPotFraction
    \/ Return

SpecUtility == InitUtility /\ [][NextUtility]_vars

(***************************************************************************)
(* The runs of Couplet.fulfills: couplets and targets over the highest     *)
(* NumFulfillsRanks ranks and NumFulfillsSuits suits, the targets over     *)
(* `anything` as well.                                                     *)
(***************************************************************************)
NumFulfillsRanks == 2

NumFulfillsSuits == 2

FulfillsRanks == {rank_range[i] : i \in 1..min(NumFulfillsRanks, num_ranks)}

FulfillsSuits == {suit_range[i] : i \in 1..min(NumFulfillsSuits, num_suits)}

ConcreteCards == {Card(rank, suit) : rank \in FulfillsRanks, suit \in FulfillsSuits}

TargetCards ==
    {Card(rank, suit) : rank \in FulfillsRanks \union {anything},
                        suit \in FulfillsSuits \union {anything}}

NextFulfills ==
    \/ /\ pc = "idle"
       /\ \E c_1 \in ConcreteCards, c_2 \in ConcreteCards,
             p_1 \in TargetCards, p_2 \in TargetCards :
              Fulfills(Couplet(c_1, c_2), Couplet(p_1, p_2))
    \/ Return

SpecFulfills == Init /\ [][NextFulfills]_vars

(***************************************************************************)
(* The runs of single level builders: the boards of DealtBoards and every  *)
(* board of board_size cards out of the first PoolSize cards of CardPool.  *)
(***************************************************************************)
CardPool ==
    <<Card(ace, hearts), Card(king, hearts), Card(nine, hearts),
      Card(three, hearts), Card(deuce, hearts), Card(ace, diamonds),
      Card(king, diamonds), Card(eight, diamonds), Card(three, diamonds),
      Card(deuce, clubs)>>

PoolSize == 8

BuilderBoards ==
    DealtBoards \union
        Members(subsets_of_size(board_size,
                    SubSeq(CardPool, 1, min(PoolSize, Len(CardPool)))))

NextBuilders ==
    \/ \E cards \in BuilderBoards : FlushLevels(cards)
    \/ \E cards \in BuilderBoards : TwoPairLevels(cards)
    \/ \E cards \in BuilderBoards : StraightLevels(cards)
    \/ Return

SpecBuilders == Init /\ [][NextBuilders]_vars

(***************************************************************************)
(* Properties of the concrete ladder                                       *)
(***************************************************************************)
\* The two cards of a couplet, as an unordered combination
Combination(couplet) == {couplet.card_1, couplet.card_2}

\* Every unordered two-card combination of the cards left in the deck
RemainingCombinations(cards) ==
    LET deck == Members(remaining_deck(cards))
    IN  {{x, y} : x \in deck, y \in deck} \ {{x} : x \in deck}

DistinctCards(cards) ==
    \A i \in 1..Len(cards) : \A j \in 1..Len(cards) :
        i # j => ~is_copy(cards[i], cards[j])

\* C1: for a board of distinct cards the concrete ladder is a partition of the
\* two-card combinations of the remaining deck: every combination is in exactly
\* one level, exactly once, and no level is empty.
LadderPartitionsRemainingCouplets ==
    (pc = "specified" /\ DistinctCards(board)) =>
        LET flat == flatten(levels)
            found == {Combination(flat[k]) : k \in 1..Len(flat)}
        IN  /\ \A i \in 1..Len(levels) : Len(levels[i]) > 0
            /\ \A k \in 1..Len(flat) : flat[k].card_1 # flat[k].card_2
            /\ found = RemainingCombinations(board)
            /\ Len(flat) = Cardinality(found)

\* A resolved ladder of several levels, one of them holding several couplets
LadderResolved ==
    /\ pc = "specified"
    /\ DistinctCards(board)
    /\ Len(levels) > 10
    /\ \E i \in 1..Len(levels) : Len(levels[i]) > 1

\* C2: a couplet of an earlier level makes, with three cards of the board, a hand
\* strictly stronger under the reference evaluator than any couplet of a later
\* level.
EarlierLevelIsStronger ==
    (pc = "specified" /\ DistinctCards(board)) =>
        LET strength ==
                list([i \in 1..Len(levels) |->
                    {best_hand(levels[i][k], board) : k \in 1..Len(levels[i])}])
        IN  \A i \in 1..Len(levels) : \A j \in 1..Len(levels) :
                i < j => \A a \in strength[i] : \A b \in strength[j] : a > b

\* What holds of the order on the boards of at most board_size cards, where no
\* two suits can have three cards each
EarlierLevelIsStrongerAtBoardSize ==
    (pc = "specified" /\ DistinctCards(board) /\ Len(board) <= board_size) =>
        LET strength ==
                list([i \in 1..Len(levels) |->
                    {best_hand(levels[i][k], board) : k \in 1..Len(levels[i])}])
        IN  \A i \in 1..Len(levels) : \A j \in 1..Len(levels) :
                i < j => \A a \in strength[i] : \A b \in strength[j] : a > b

\* On a board of more than board_size cards a couplet of an earlier level makes a
\* weaker hand than a couplet of a later level
LaterLevelIsStronger ==
    /\ pc = "specified"
    /\ DistinctCards(board)
    /\ Len(board) > board_size
    /\ LET strength ==
               list([i \in 1..Len(levels) |->
                   {best_hand(levels[i][k], board) : k \in 1..Len(levels[i])}])
       IN  \E i \in 1..Len(levels) : \E j \in (i + 1)..Len(levels) :
               \E a \in strength[i] : \E b \in strength[j] : a < b

\* The first generic level holding a pattern the couplet fulfills (0: none)
FirstLevelFulfilled(couplet, generic) ==
    LET hits == {g \in 1..Len(generic) :
                    \E k \in 1..Len(generic[g]) : fulfills(couplet, generic[g][k])}
    IN  IF hits = {} THEN 0 ELSE CHOOSE g \in hits : \A h \in hits : g <= h

CardsOf(cards) == Members(cards)

\* A holding of holding_size distinct cards and a board of distinct cards that
\* shares no card with it
ValidDeal ==
    /\ Len(holding) = holding_size
    /\ DistinctCards(holding)
    /\ DistinctCards(board)
    /\ CardsOf(holding) \cap CardsOf(board) = {}

\* The holding or the board has a card twice, or they share a card
MalformedDeal ==
    /\ holding # <<>>
    /\ \/ ~DistinctCards(holding)
       \/ ~DistinctCards(board)
       \/ CardsOf(holding) \cap CardsOf(board) # {}

CallOver == pc \in {"returned", "raised"}

\* C3: for a holding of holding_size distinct cards and a board of distinct cards
\* disjoint from it, utility returns a value v with 0 <= v <= 1.
UtilityWithinUnitInterval ==
    (CallOver /\ ValidDeal) =>
        /\ result.outcome = "returned"
        /\ 0 <= result.value.num
        /\ result.value.num <= result.value.den

\* What holds of the value whenever utility does return one
ReturnedValueWithinUnitInterval ==
    (pc = "returned" /\ ValidDeal) =>
        /\ 0 <= result.value.num
        /\ result.value.num <= result.value.den

\* C4: whenever num_opponents_couplets exceeds num_equipotent + num_worse, and so
\* whenever it exceeds num_better + num_equipotent + num_worse, utility returns 0
\* and raises nothing.
OutnumberedReturnsZero ==
    (CallOver /\ ValidDeal
        /\ num_opponents_couplets > num_equipotent_couplets + num_worse_couplets) =>
        result = Returned(fraction(0, 1))

\* More opponents' couplets than couplets left for them: the call has come to
\* the quotient of prob_best_hand with the counts made
OpponentsOutnumberRemaining ==
    /\ CallOver
    /\ ValidDeal
    /\ num_opponents_couplets >
           num_better_couplets + num_equipotent_couplets + num_worse_couplets

\* What holds when the opponents' couplets outnumber only the equipotent and
\* worse ones: the ZeroDivisionError is caught and 0 is returned
OutnumberedAmongRemainingReturnsZero ==
    (CallOver /\ ValidDeal
        /\ num_opponents_couplets > num_equipotent_couplets + num_worse_couplets
        /\ num_opponents_couplets <=
               num_better_couplets + num_equipotent_couplets + num_worse_couplets) =>
        result = Returned(fraction(0, 1))

\* C5: on a holding or board with a card twice, or a holding sharing a card with
\* the board, utility fails before any ladder is built and never returns a number.
MalformedDealFailsFast ==
    MalformedDeal =>
        /\ generic_levels = <<>>
        /\ levels = <<>>
        /\ result.outcome # "returned"

\* utility has returned a number for a board holding one card twice
MalformedDealReturned ==
    /\ MalformedDeal
    /\ pc = "returned"
    /\ levels # <<>>

\* The level (from 1) of the concrete ladder holding a two-card combination
LevelOfCombination(combination) ==
    CHOOSE i \in 1..Len(levels) :
        combination \in {Combination(levels[i][k]) : k \in 1..Len(levels[i])}

\* The combinations of levels from..to that share no card with the holding
FreeCombinations(from, to) ==
    {c \in UNION {{Combination(levels[i][k]) : k \in 1..Len(levels[i])} :
                      i \in from..to} :
        c \cap CardsOf(holding) = {}}

RECURSIVE SumOfTies(_, _, _, _)
SumOfTies(e, w, K, k) ==
    IF k < 0 THEN fraction(0, 1)
    ELSE fraction_add(SumOfTies(e, w, K, k - 1),
                      fraction(comb(e, k) * comb(w, K - k), comb(e + w, K) * (k + 1)))

Swapped(couplet) == Couplet(couplet.card_2, couplet.card_1)

\* C6: Couplet(c1,c2).fulfills(Couplet(p1,p2)) has the truth value of
\* Couplet(c2,c1).fulfills(Couplet(p1,p2)), of Couplet(c1,c2).fulfills(Couplet(p2,p1))
\* and of Couplet(c2,c1).fulfills(Couplet(p2,p1)).
FulfillsIgnoresOrder ==
    pc = "fulfills" =>
        /\ result.value = fulfills(Swapped(couplet_self), couplet_target)
        /\ result.value = fulfills(couplet_self, Swapped(couplet_target))
        /\ result.value = fulfills(Swapped(couplet_self), Swapped(couplet_target))

\* A couplet of two different cards fulfills a target of two different patterns
\* through the out-of-order pairing only
FulfilledOutOfOrder ==
    /\ pc = "fulfills"
    /\ result.value
    /\ couplet_self.card_1 # couplet_self.card_2
    /\ couplet_target.card_1 # couplet_target.card_2
    /\ ~card_fulfills(couplet_self.card_1, couplet_target.card_1)

(***************************************************************************)
(* Properties of single level builders                                     *)
(***************************************************************************)
SuitTally(suit) == Cardinality({i \in 1..Len(board) : board[i].suit = suit})

SuitedRanks(suit) == {board[i].rank : i \in {j \in 1..Len(board) : board[j].suit = suit}}

\* The levels flush_levels owes: (suit, rank) for every suit with three or more
\* board cards and every rank from three up that no board card of the suit has
FlushLevelsOwed ==
    {<<suit, rank>> \in (0..(num_suits - 1)) \X (three..(num_ranks - 1)) :
        SuitTally(suit) >= 3 /\ rank \notin SuitedRanks(suit)}

\* C7: flush_levels emits levels only for suits with three or more board cards,
\* and for each such suit one level per rank r >= three that no board card of the
\* suit has, in strictly descending order of rank, each level the single pattern
\* (r of the suit, any rank of the suit).
FlushLevelsShape ==
    pc = "flush_levels" =>
        /\ \A i \in 1..Len(generic_levels) :
               /\ Len(generic_levels[i]) = 1
               /\ LET first == generic_levels[i][1].card_1
                      second == generic_levels[i][1].card_2
                  IN  /\ <<first.suit, first.rank>> \in FlushLevelsOwed
                      /\ second = Card(anything, first.suit)
        /\ \A owed \in FlushLevelsOwed :
               Cardinality({i \in 1..Len(generic_levels) :
                   generic_levels[i][1].card_1 = Card(owed[2], owed[1])}) = 1
        /\ \A i \in 1..Len(generic_levels) : \A j \in 1..Len(generic_levels) :
               (i < j /\ generic_levels[i][1].card_1.suit
                             = generic_levels[j][1].card_1.suit) =>
                   generic_levels[i][1].card_1.rank > generic_levels[j][1].card_1.rank

\* flush_levels has run on a board with three or more cards of one suit, one of
\* them of rank three or more, and one or two cards of another suit
FlushLevelsEmitted ==
    /\ pc = "flush_levels"
    /\ Len(generic_levels) > 0
    /\ \E suit \in 0..(num_suits - 1) : SuitTally(suit) \in {1, 2}
    /\ \E suit \in 0..(num_suits - 1) :
           /\ SuitTally(suit) >= 3
           /\ \E rank \in SuitedRanks(suit) : rank >= three

UnpairedBoard == max_tally(tally_ranks(board)) = 1

\* The single-pattern levels (higher rank, any suit; lower rank, any suit) over
\* the ranks the board has `tally` times
TwoPairLevelsOver(tally) ==
    LET ranks == {rank \in 0..(num_ranks - 1) : tally_ranks(board)[rank] = tally}
    IN  {<<Couplet(Card(higher, anything), Card(lower, anything))>> :
            <<higher, lower>> \in {pair \in ranks \X ranks : pair[1] > pair[2]}}

\* C10 as written: on an unpaired board two_pair_levels emits one level for every
\* pair of two distinct ranks absent from the board (tally 0), each the single
\* pattern (higher rank, any suit; lower rank, any suit), and no other level.
TwoPairLevelsOfAbsentRanks ==
    (pc = "two_pair_levels" /\ UnpairedBoard) =>
        /\ Members(generic_levels) = TwoPairLevelsOver(0)
        /\ Len(generic_levels) = Cardinality(TwoPairLevelsOver(0))

\* C10 amended: on an unpaired board two_pair_levels emits one level for every
\* pair of two distinct ranks present on the board (tally 1), each the single
\* pattern (higher rank, any suit; lower rank, any suit), and no other level.
TwoPairLevelsOfBoardRanks ==
    (pc = "two_pair_levels" /\ UnpairedBoard) =>
        /\ Members(generic_levels) = TwoPairLevelsOver(1)
        /\ Len(generic_levels) = Cardinality(TwoPairLevelsOver(1))

\* two_pair_levels has run on an unpaired board of board_size cards
TwoPairLevelsOnUnpairedBoard ==
    /\ pc = "two_pair_levels"
    /\ UnpairedBoard
    /\ Len(board) = board_size
    /\ Len(generic_levels) = comb(board_size, 2)

\* The distinct ranks of the board, an ace counted as the ace and as the rank
\* just below the deuce
BoardRanksWithLowAce ==
    LET ranks == {board[i].rank : i \in 1..Len(board)}
    IN  ranks \union (IF ace \in ranks THEN {deprecated_ace} ELSE {})

Window(high_rank) == (high_rank - 4)..high_rank

\* The 3-subsets of the window of high_rank that the board's ranks contain
BoardTriples(high_rank) ==
    {T \in SUBSET (Window(high_rank) \cap BoardRanksWithLowAce) : Cardinality(T) = 3}

\* The high ranks, from ace down to five, with three board ranks in the window
StraightHighRanks == {h \in five..ace : BoardTriples(h) # {}}

\* The two window ranks outside T with any suit, the low ace written as the ace
StraightPattern(high_rank, T) ==
    {Card(IF rank = deprecated_ace THEN ace ELSE rank, anything) :
        rank \in Window(high_rank) \ T}

\* C11: straight_levels emits, in descending order of high rank from ace down to
\* five, one level for each high rank h with three distinct board ranks in the
\* window h-4..h, an ace counting as ace and as the rank below the deuce; the level
\* of h holds one pattern per 3-subset T of the window within the board's ranks:
\* the two window ranks outside T with any suit, the low ace written as ace.
StraightLevelsShape ==
    pc = "straight_levels" =>
        /\ Len(generic_levels) = Cardinality(StraightHighRanks)
        /\ \A i \in 1..Len(generic_levels) :
               LET h == CHOOSE high \in StraightHighRanks :
                            Cardinality({g \in StraightHighRanks : g >= high}) = i
                   level == generic_levels[i]
               IN  /\ Len(level) = Cardinality(BoardTriples(h))
                   /\ {Combination(level[k]) : k \in 1..Len(level)}
                          = {StraightPattern(h, T) : T \in BoardTriples(h)}

\* straight_levels has run on a board with an ace that leaves a high straight, a
\* wheel, and a window without three board ranks
StraightLevelsWithWheel ==
    /\ pc = "straight_levels"
    /\ five \in StraightHighRanks
    /\ \E h \in StraightHighRanks : h > five /\ Cardinality(BoardTriples(h)) > 1
    /\ \E h \in five..ace : h \notin StraightHighRanks
    /\ Len(generic_levels) >= 2

(***************************************************************************)
(* Properties of the catch-all level                                       *)
(***************************************************************************)
\* The couplet fulfills a pattern of a level of the nine builders, that is of a
\* generic level before the catch-all
FulfillsBuilderLevel(couplet) ==
    \E g \in 1..(Len(generic_levels) - 1) : level_matches(couplet, generic_levels[g])

\* C12: for a board of board_size distinct cards, boards with three or four cards
\* of one rank included, every two-card combination of the remaining deck fulfills
\* a pattern of a level of the nine builders, so specify puts no couplet in the
\* catch-all level.
NoCoupletInCatchAll ==
    (pc = "specified" /\ Len(board) = board_size /\ DistinctCards(board)) =>
        LET couplets == specific_couplets(board)
        IN  \A k \in 1..Len(couplets) : FulfillsBuilderLevel(couplets[k])

\* On a board with four cards of one rank the last concrete level holds couplets
\* that fulfill no pattern of the nine builders
CatchAllTakesCouplets ==
    /\ pc = "specified"
    /\ Len(board) = board_size
    /\ DistinctCards(board)
    /\ max_tally(tally_ranks(board)) = 4
    /\ \E k \in 1..Len(levels[Len(levels)]) :
           ~FulfillsBuilderLevel(levels[Len(levels)][k])

\* What holds on the boards with at most three cards of one rank
NoCoupletInCatchAllUpToThreeOfARank ==
    (pc = "specified" /\ Len(board) = board_size /\ DistinctCards(board)
        /\ max_tally(tally_ranks(board)) <= 3) =>
        LET couplets == specific_couplets(board)
        IN  \A k \in 1..Len(couplets) : FulfillsBuilderLevel(couplets[k])

====
